---- MODULE Spec2Model ----
(***************************************************************************)
(* Model of the gitlab-shell access-control and command-delegation layer:  *)
(*   - the upload-archive command pipeline (Command.Execute),              *)
(*   - the access verifier and the internal API client it calls,           *)
(*   - the personal-access-token client and the HTTP fixture its tests use.*)
(***************************************************************************)
EXTENDS Integers, Sequences, FiniteSets, TLC

VARIABLES
    \* ---- configuration shared by reference by every run and client
    Config,         \* *config.Config
    \* ---- upload-archive pipeline, one entry per concurrent Execute run
    pc,             \* position of each run
    SshArgs,        \* c.Args.SshArgs
    repo,           \* repo := args[1]
    callerCtx,      \* context the caller passes to Execute
    verifyCtx,      \* context the verifyAccess call was made with
    gitalyCtx,      \* context the performGitalyCall call was made with
    ctxDone,        \* whether the caller's context was cancelled mid-call
    response,       \* *accessverifier.Response returned by verifyAccess
    verifyErr,      \* error returned by verifyAccess
    authMsg,        \* message field of the body the authority sent to the run
    ctxWithLogData, \* context built at uploadarchive.go:38
    retCtx,         \* context returned by Execute
    execErr,        \* error returned by Execute
    gitalyErr,      \* error returned by performGitalyCall
    authorityCalls, \* access-check calls made by the run
    gitalyCalls,    \* performGitalyCall invocations made by the run
    gitalyReturns,  \* performGitalyCall invocations that have returned
    \* ---- personal-access-token client
    cpc,            \* position of the client call
    cargs,          \* *commandargs.Shell given to GetPersonalAccessToken
    request,        \* RequestBody sent to the authority
    httpResp,       \* HTTP response received
    result          \* (response, error) returned by GetPersonalAccessToken

pipeVars == <<pc, SshArgs, repo, callerCtx, verifyCtx, gitalyCtx, ctxDone,
              response, verifyErr, authMsg, ctxWithLogData,
              retCtx, execErr, gitalyErr, authorityCalls, gitalyCalls,
              gitalyReturns>>
clientVars == <<cpc, cargs, request, httpResp, result>>
vars == <<Config, pipeVars, clientVars>>

-----------------------------------------------------------------------------
\* Bounds of the model.

\* Number of concurrent Execute runs.
NumRuns == 2
\* Longest raw argument vector handed to Execute.
MaxArgs == 3

Runs == 1..NumRuns

-----------------------------------------------------------------------------
\* Values.

\* JSON null.
Null == "<null>"
\* A nil error.
Nil == "<nil>"
\* A nil pointer, and a pointer to v.
NilPtr == <<>>
Ptr(v) == <<v>>

\* http.StatusOK, the status of a response written without WriteHeader.
StatusOK == 200
\* http.StatusForbidden
StatusForbidden == 403

\* Status codes the authority answers with.
Statuses == {StatusOK, 201, StatusForbidden, 500}

Is2xx(status) == status >= 200 /\ status <= 299

\* Messages an authority puts into a body.
Messages == {"Disallowed by API call", "Not allowed!", "missing user"}

\* The closed set of error kinds.
ErrorKinds == {"Disallowed", "AuthorityMessage", "ParseFailure",
               "BareStatusFailure", "TransportFailure", "Cancelled"}

NoError == [kind |-> Nil, msg |-> ""]

NewError(kind, msg) == [kind |-> kind, msg |-> msg]

\* disallowedcommand.Error
DisallowedCommandError == NewError("Disallowed", "Disallowed command")

ParseFailureError == NewError("ParseFailure", "Parsing failed")

StatusError(status) ==
    NewError("BareStatusFailure", "Internal API error (" \o ToString(status) \o ")")

TransportError == NewError("TransportFailure", "Internal API unreachable")

CancelledError == NewError("Cancelled", "context canceled")

-----------------------------------------------------------------------------
\* HTTP bodies.  A body is the sequence of documents written to the response
\* writer.  A document is a JSON object, given as the record of the fields it
\* spells out, and is either well formed or truncated.

EmptyObject == [n \in {} |-> ""]

JsonDoc(obj) == [valid |-> TRUE, obj |-> obj]

\* Bytes that spell out the fields of obj but do not parse.
BrokenDoc(obj) == [valid |-> FALSE, obj |-> obj]

HttpResponse(status, body) == [status |-> status, body |-> body]

\* Value of a string field of a JSON object in a Go struct: a field that is
\* absent or null leaves the zero value.
StringField(obj, name) ==
    IF name \in DOMAIN obj /\ obj[name] # Null THEN obj[name] ELSE ""

BoolField(obj, name) == IF name \in DOMAIN obj THEN obj[name] ELSE FALSE

IntField(obj, name) == IF name \in DOMAIN obj THEN obj[name] ELSE 0

ListField(obj, name) == IF name \in DOMAIN obj THEN obj[name] ELSE <<>>

\* json.Decoder.Decode: the first document of the body is read; an empty
\* body (EOF) or a truncated document is an error.
Decode(body) ==
    IF body = <<>> \/ ~Head(body).valid
    THEN [ok |-> FALSE, obj |-> EmptyObject]
    ELSE [ok |-> TRUE, obj |-> Head(body).obj]

-----------------------------------------------------------------------------
\* Internal API client: one call, classified from status and body together.

CallResult(envelope, err) == [envelope |-> envelope, err |-> err]

ApiCall(resp) ==
    LET d == Decode(resp.body)
        message == StringField(d.obj, "message")
    IN  IF Is2xx(resp.status)
        THEN IF ~d.ok
             THEN CallResult(NilPtr, ParseFailureError)
             ELSE IF BoolField(d.obj, "success")
                  THEN CallResult(Ptr(d.obj), NoError)
                  ELSE CallResult(NilPtr, NewError("AuthorityMessage", message))
        ELSE IF d.ok /\ message # ""
             THEN CallResult(NilPtr, NewError("AuthorityMessage", message))
             ELSE CallResult(NilPtr, StatusError(resp.status))

-----------------------------------------------------------------------------
\* Responses an authority can give: every status with every shape of body
\* (absent, truncated, JSON with or without success flag and message).

SuccessFlags == {EmptyObject, [success |-> TRUE], [success |-> FALSE]}

MessageFields == {EmptyObject} \cup {[message |-> m] : m \in Messages}

\* JSON objects carrying each of the payloads on top of flag and message.
Objects(payloads) ==
    {s @@ m @@ p : s \in SuccessFlags, m \in MessageFields, p \in payloads}

Bodies(payloads) ==
    {<<>>}
      \cup {<<BrokenDoc(m)>> : m \in MessageFields}
      \cup {<<JsonDoc(o)>> : o \in Objects(payloads)}

Responses(payloads) ==
    {HttpResponse(st, b) : st \in Statuses, b \in Bodies(payloads)}

-----------------------------------------------------------------------------
\* Personal-access-token client and the fixture of its tests.

\* Mutant: discovery resolves the username to no user id.
DiscoverResponseUnresolved ==
    [UserId |-> 0, Username |-> "jane-doe", Name |-> "Jane Doe"]

\* Handler of /api/v4/internal/discover.
DiscoverResponse == [UserId |-> 1, Username |-> "jane-doe", Name |-> "Jane Doe"]

KeyIDs == {"0", "1", "2", "3", "4"}

\* The principals a token is requested for: a key id or a username.
ClientArgs ==
    {[GitlabKeyId |-> k, GitlabUsername |-> ""] : k \in KeyIDs}
      \cup {[GitlabKeyId |-> "", GitlabUsername |-> DiscoverResponse.Username]}

\* Request body of the call: the key id, or the user id discovery resolves
\* the username to.
GetRequest(args) ==
    IF args.GitlabUsername # ""
    THEN [KeyID |-> "", UserID |-> DiscoverResponse.UserId]
    ELSE [KeyID |-> args.GitlabKeyId, UserID |-> 0]

\* Mutant: the fixture marks the issued token as a failure.
KeyID0WritesFailure ==
    <<JsonDoc([success    |-> FALSE,
               token      |-> "aAY1G3YPeemECgUvxuXY",
               scopes     |-> <<"read_api", "read_repository">>,
               expires_at |-> "9001-11-17"])>>

\* case "0": the issued token.
KeyID0Writes ==
    <<JsonDoc([success    |-> TRUE,
               token      |-> "aAY1G3YPeemECgUvxuXY",
               scopes     |-> <<"read_api", "read_repository">>,
               expires_at |-> "9001-11-17"])>>

\* Mutant: the fixture reports the missing user as a success.
KeyID1WritesSuccess == <<JsonDoc([success |-> TRUE, message |-> "missing user"])>>

\* case "1": success false with a message.
KeyID1Writes == <<JsonDoc([success |-> FALSE, message |-> "missing user"])>>

\* Mutant: the fixture's error response carries no message.
KeyID2WritesNoMessage == <<JsonDoc(EmptyObject)>>

\* case "2": a client.ErrorResponse with a message.
KeyID2Writes == <<JsonDoc([message |-> "Not allowed!"])>>

\* Mutant: the fixture closes the brace, so the document parses.
KeyID3WritesClosed == <<JsonDoc([message |-> "broken json!"])>>

\* case "3": a document cut before its closing brace.
KeyID3Writes == <<BrokenDoc([message |-> "broken json!"])>>

\* What the switch on requestBody.KeyID writes.
KeyIDWrites(keyID) ==
    CASE keyID = "0" -> KeyID0Writes
      [] keyID = "1" -> KeyID1Writes
      [] keyID = "2" -> KeyID2Writes
      [] keyID = "3" -> KeyID3Writes
      [] OTHER -> <<>>

\* Mutant: case "4" does not call WriteHeader.
KeyIDStatusOnly2(keyID) == IF keyID = "2" THEN StatusForbidden ELSE StatusOK

\* The status the switch sets: w.WriteHeader(http.StatusForbidden) in cases
\* "2" and "4", the default otherwise.
KeyIDStatus(keyID) == IF keyID \in {"2", "4"} THEN StatusForbidden ELSE StatusOK

\* What the test on requestBody.UserID writes after it.
UserIDWrites(userID) ==
    IF userID = 1
    THEN <<JsonDoc([success    |-> TRUE,
                    token      |-> "YXuxvUgCEmeePY3G1YAa",
                    scopes     |-> <<"api">>,
                    expires_at |-> Null])>>
    ELSE <<>>

\* Handler of /api/v4/internal/personal_access_token.
Handler(req) ==
    HttpResponse(KeyIDStatus(req.KeyID),
                 KeyIDWrites(req.KeyID) \o UserIDWrites(req.UserID))

\* The response TestGetPersonalAccessTokenByKeyId expects for key id "0".
ExpectedByKeyId ==
    [Success   |-> TRUE,
     Token     |-> "aAY1G3YPeemECgUvxuXY",
     Scopes    |-> <<"read_api", "read_repository">>,
     ExpiresAt |-> "9001-11-17",
     Message   |-> ""]

\* The response TestGetRecoveryCodesByUsername expects for "jane-doe".
ExpectedByUsername ==
    [Success   |-> TRUE,
     Token     |-> "YXuxvUgCEmeePY3G1YAa",
     Scopes    |-> <<"api">>,
     ExpiresAt |-> "",
     Message   |-> ""]

\* The error text the tests expect for a key id (TestMissingUser and the
\* table of TestErrorResponses).
ExpectedError(fakeID) ==
    CASE fakeID = "1" -> "missing user"
      [] fakeID = "2" -> "Not allowed!"
      [] fakeID = "3" -> "Parsing failed"
      [] fakeID = "4" -> "Internal API error (403)"

\* The Response struct filled from the envelope.
TokenResponse(obj) ==
    [Success   |-> BoolField(obj, "success"),
     Token     |-> StringField(obj, "token"),
     Scopes    |-> ListField(obj, "scopes"),
     ExpiresAt |-> StringField(obj, "expires_at"),
     Message   |-> StringField(obj, "message")]

ClientResult(resp, err) == [resp |-> resp, err |-> err]

\* Mutant: a failure reported by the authority returns the decoded response
\* together with the error.
ParseTokenResponseKeepsPayload(resp) ==
    LET r == ApiCall(resp)
    IN  IF r.err = NoError
        THEN ClientResult(Ptr(TokenResponse(Head(r.envelope))), NoError)
        ELSE IF r.err.kind = "AuthorityMessage"
             THEN ClientResult(Ptr(TokenResponse(Decode(resp.body).obj)), r.err)
             ELSE ClientResult(NilPtr, r.err)

\* parse: the outcome of GetPersonalAccessToken for an HTTP response.
ParseTokenResponse(resp) ==
    LET r == ApiCall(resp)
    IN  IF r.err # NoError
        THEN ClientResult(NilPtr, r.err)
        ELSE ClientResult(Ptr(TokenResponse(Head(r.envelope))), NoError)

\* Payloads of the token endpoint used for arbitrary authority answers.
TokenPayloads == {EmptyObject, [token |-> "aAY1G3YPeemECgUvxuXY"]}

NoRequest == [KeyID |-> "", UserID |-> 0]
NoArgs == [GitlabKeyId |-> "", GitlabUsername |-> ""]
NoResponse == HttpResponse(0, <<>>)
NoResult == ClientResult(NilPtr, NoError)

ClientInit ==
    /\ cpc = "idle"
    /\ cargs = NoArgs
    /\ request = NoRequest
    /\ httpResp = NoResponse
    /\ result = NoResult

\* GetPersonalAccessToken is called and posts its request.
GetPersonalAccessToken(args) ==
    /\ cpc = "idle"
    /\ cpc' = "sent"
    /\ cargs' = args
    /\ request' = GetRequest(args)
    /\ UNCHANGED <<httpResp, result>>
    /\ UNCHANGED <<Config, pipeVars>>

\* The test server answers the request.
HandlerRespond ==
    /\ cpc = "sent"
    /\ cpc' = "received"
    /\ httpResp' = Handler(request)
    /\ UNCHANGED <<cargs, request, result>>
    /\ UNCHANGED <<Config, pipeVars>>

\* An authority answers the request with any response.
AuthorityRespond ==
    /\ cpc = "sent"
    /\ \E resp \in Responses(TokenPayloads) :
          httpResp' = resp
    /\ cpc' = "received"
    /\ UNCHANGED <<cargs, request, result>>
    /\ UNCHANGED <<Config, pipeVars>>

\* GetPersonalAccessToken parses the response and returns.
ClientReturn ==
    /\ cpc = "received"
    /\ cpc' = "done"
    /\ result' = ParseTokenResponse(httpResp)
    /\ UNCHANGED <<cargs, request, httpResp>>
    /\ UNCHANGED <<Config, pipeVars>>

\* The call is over; the client takes the next one.
ClientReset ==
    /\ cpc = "done"
    /\ cpc' = "idle"
    /\ cargs' = NoArgs
    /\ request' = NoRequest
    /\ httpResp' = NoResponse
    /\ result' = NoResult
    /\ UNCHANGED <<Config, pipeVars>>

ClientNext ==
    \/ \E args \in ClientArgs : GetPersonalAccessToken(args)
    \/ HandlerRespond
    \/ AuthorityRespond
    \/ ClientReturn
    \/ ClientReset

-----------------------------------------------------------------------------
\* Access verifier.

\* Approval payloads of the access-check endpoint.
AccessPayloads ==
    {EmptyObject,
     [gl_username          |-> "alex-doe",
      gl_project_path      |-> "group/project-path",
      gl_project_id        |-> 1,
      gl_root_namespace_id |-> 2,
      gitaly_address       |-> "unix:gitaly.socket"],
     [gl_username          |-> "jane-doe",
      gl_project_path      |-> "other/repo",
      gl_project_id        |-> 3,
      gl_root_namespace_id |-> 4,
      gitaly_address       |-> "tcp:gitaly"]}

\* The accessverifier.Response struct filled from the envelope.
AccessResponse(obj) ==
    [Success         |-> BoolField(obj, "success"),
     Message         |-> StringField(obj, "message"),
     Username        |-> StringField(obj, "gl_username"),
     ProjectID       |-> IntField(obj, "gl_project_id"),
     RootNamespaceID |-> IntField(obj, "gl_root_namespace_id"),
     Gitaly          |-> [Address |-> StringField(obj, "gitaly_address"),
                          Repo    |-> [GlProjectPath |->
                                         StringField(obj, "gl_project_path")]]]

VerifyResult(resp, err) == [response |-> resp, err |-> err]

\* Verify: the access check for an HTTP response of the authority.  An
\* envelope saying success == false is the authority's denial; every other
\* error of the client is passed on as it is.  The denial comes with the
\* decoded response, any other error with none.
Verify(resp) ==
    LET r == ApiCall(resp)
    IN  IF r.err = NoError
        THEN VerifyResult(Ptr(AccessResponse(Head(r.envelope))), NoError)
        ELSE IF r.err.kind = "AuthorityMessage" /\ Is2xx(resp.status)
             THEN VerifyResult(Ptr(AccessResponse(Decode(resp.body).obj)),
                               NewError("Disallowed", r.err.msg))
             ELSE VerifyResult(NilPtr, r.err)

\* The message field of the body the authority sent.
BodyMessage(resp) == StringField(Decode(resp.body).obj, "message")

\* The message the access-check endpoint gives when it refuses.
AccessMessages == {"Disallowed by API call"}

\* Answers of the access-check endpoint: every status and shape of body,
\* with an approval payload or none, and with that message or none.
AccessResponses ==
    {resp \in Responses(AccessPayloads) :
        \/ resp.body = <<>>
        \/ StringField(Head(resp.body).obj, "message") \in {""} \cup AccessMessages}

-----------------------------------------------------------------------------
\* Upload-archive command pipeline.

\* Raw argument vectors the session layer hands over.
ArgWords == <<"git-upload-archive", "group/repo", "--remote", "HEAD">>

ArgVectors ==
    {[i \in 1..n |-> ArgWords[((i - 1) % Len(ArgWords)) + 1]] : n \in 0..MaxArgs}

\* context.Background(): no correlation id, no values.
Background == [correlationID |-> "", logData |-> NilPtr]

\* correlation.ContextWithCorrelation(ctx, correlationID)
ContextWithCorrelation(c, correlationID) ==
    [c EXCEPT !.correlationID = correlationID]

\* Correlation ids of inbound operations.
CorrelationIDs == {"01HZX5Q2"}

\* The contexts a caller passes to Execute: with a correlation id, or the
\* bare background context.
CallerCtxs ==
    {Background} \cup {ContextWithCorrelation(Background, id) : id \in CorrelationIDs}

\* Mutant: the access check is made with a fresh background context.
VerifyAccessCtxFresh(c) == Background

\* The context Execute hands to verifyAccess.
VerifyAccessCtx(c) == c

\* Mutant: the backend call gets a context with a new correlation id.
GitalyCallCtxRegenerated(c, withLogData) ==
    ContextWithCorrelation(c, "regenerated")

\* The context Execute hands to performGitalyCall.
GitalyCallCtx(c, withLogData) == c

\* context.WithValue(ctx, "logData", logData)
WithLogData(ctx, logData) == [ctx EXCEPT !.logData = Ptr(logData)]

\* command.NewLogData
NewLogData(project, username, projectID, rootNamespaceID) ==
    [Username |-> username,
     Meta     |-> [Project         |-> project,
                   ProjectID       |-> projectID,
                   RootNamespaceID |-> rootNamespaceID]]

\* Mutant: only too short an argument vector is refused.
ArgsAllowedAtLeastTwo(args) == Len(args) >= 2

\* len(args) != 2 is refused.
ArgsAllowed(args) == Len(args) = 2

\* Mutant: username and project path change places.
LogDataOfSwapped(resp) ==
    NewLogData(resp.Username,
               resp.Gitaly.Repo.GlProjectPath,
               resp.ProjectID,
               resp.RootNamespaceID)

\* The audit record Execute builds from the verifier's response.
LogDataOf(resp) ==
    NewLogData(resp.Gitaly.Repo.GlProjectPath,
               resp.Username,
               resp.ProjectID,
               resp.RootNamespaceID)

\* Mutant: every error of the verifier is reported as a disallowed command.
VerifyErrorReturnMasked(ctx, err) == [ctx |-> ctx, err |-> DisallowedCommandError]

\* Mutant: the error return carries an audit record with nothing filled in.
VerifyErrorReturnPartialAudit(ctx, err) ==
    [ctx |-> WithLogData(ctx, NewLogData("", "", 0, 0)), err |-> err]

\* What Execute returns when verifyAccess returned err.
VerifyErrorReturn(ctx, err) == [ctx |-> ctx, err |-> err]

\* Mutant: only an error without a response stops the run.
CallsGitalyOnDenial(err) == err.kind \in {Nil, "Disallowed"}

\* Whether Execute goes on to performGitalyCall after verifyAccess.
CallsGitaly(err) == err = NoError

\* Mutant: a failed backend call returns the caller's context.
GitalyReturnValueDropsLogData(ctx, withLogData, err) ==
    [ctx |-> IF err = NoError THEN withLogData ELSE ctx, err |-> err]

\* Mutant: the backend's error is not handed back.
GitalyReturnValueSwallowsError(ctx, withLogData, err) ==
    [ctx |-> withLogData, err |-> NoError]

\* Mutant: a failed backend call replaces the audit record by an empty one.
GitalyReturnValueRewritesLogData(ctx, withLogData, err) ==
    [ctx |-> IF err = NoError
             THEN withLogData
             ELSE WithLogData(withLogData, NewLogData("", "", 0, 0)),
     err |-> err]

\* What Execute returns when performGitalyCall returned err.
GitalyReturnValue(ctx, withLogData, err) == [ctx |-> withLogData, err |-> err]

\* Outcomes of the backend call.
GitalyOutcomes == {NoError, NewError("TransportFailure", "gitaly unavailable")}

\* Outcome of an access check that never got a response: the context was
\* cancelled, or else the authority could not be reached.
AbortOutcome(done) == IF done THEN CancelledError ELSE TransportError

PipeInit ==
    /\ pc = [r \in Runs |-> "new"]
    /\ SshArgs = [r \in Runs |-> <<>>]
    /\ repo = [r \in Runs |-> ""]
    /\ callerCtx = [r \in Runs |-> Background]
    /\ verifyCtx = [r \in Runs |-> NilPtr]
    /\ gitalyCtx = [r \in Runs |-> NilPtr]
    /\ ctxDone = [r \in Runs |-> FALSE]
    /\ response = [r \in Runs |-> NilPtr]
    /\ verifyErr = [r \in Runs |-> NoError]
    /\ authMsg = [r \in Runs |-> ""]
    /\ ctxWithLogData = [r \in Runs |-> NilPtr]
    /\ retCtx = [r \in Runs |-> NilPtr]
    /\ execErr = [r \in Runs |-> NoError]
    /\ gitalyErr = [r \in Runs |-> NoError]
    /\ authorityCalls = [r \in Runs |-> 0]
    /\ gitalyCalls = [r \in Runs |-> 0]
    /\ gitalyReturns = [r \in Runs |-> 0]

\* A Command is built for an inbound operation with its argument vector,
\* and the caller has the context it will pass to Execute.
NewCommand(r) ==
    /\ pc[r] = "new"
    /\ \E args \in ArgVectors : SshArgs' = [SshArgs EXCEPT ![r] = args]
    /\ \E c \in CallerCtxs : callerCtx' = [callerCtx EXCEPT ![r] = c]
    /\ pc' = [pc EXCEPT ![r] = "ready"]
    /\ UNCHANGED <<repo, verifyCtx, gitalyCtx, ctxDone, response, verifyErr, authMsg, ctxWithLogData, retCtx,
                   execErr, gitalyErr, authorityCalls, gitalyCalls, gitalyReturns>>
    /\ UNCHANGED <<Config, clientVars>>

\* Mutant: the access check is requested before the arity check.
ValidateVerifiesFirst(r) ==
    /\ pc[r] = "ready"
    /\ verifyCtx' = [verifyCtx EXCEPT ![r] = Ptr(callerCtx[r])]
    /\ authorityCalls' = [authorityCalls EXCEPT ![r] = @ + 1]
    /\ IF Len(SshArgs[r]) = 2
       THEN /\ repo' = [repo EXCEPT ![r] = SshArgs[r][2]]
            /\ pc' = [pc EXCEPT ![r] = "verifying"]
            /\ UNCHANGED <<retCtx, execErr>>
       ELSE /\ pc' = [pc EXCEPT ![r] = "done"]
            /\ retCtx' = [retCtx EXCEPT ![r] = Ptr(callerCtx[r])]
            /\ execErr' = [execErr EXCEPT ![r] = DisallowedCommandError]
            /\ UNCHANGED repo
    /\ UNCHANGED <<SshArgs, callerCtx, gitalyCtx, ctxDone, response, verifyErr,
                   authMsg, ctxWithLogData, gitalyErr, gitalyCalls, gitalyReturns>>
    /\ UNCHANGED <<Config, clientVars>>

\* Execute up to the verifyAccess call: the arity check, then the request to
\* the authority is under way.
Validate(r) ==
    /\ pc[r] = "ready"
    /\ IF ArgsAllowed(SshArgs[r])
       THEN /\ repo' = [repo EXCEPT ![r] = SshArgs[r][2]]
            /\ pc' = [pc EXCEPT ![r] = "verifying"]
            /\ verifyCtx' = [verifyCtx EXCEPT ![r] = Ptr(VerifyAccessCtx(callerCtx[r]))]
            /\ authorityCalls' = [authorityCalls EXCEPT ![r] = @ + 1]
            /\ UNCHANGED <<retCtx, execErr>>
       ELSE /\ pc' = [pc EXCEPT ![r] = "done"]
            /\ retCtx' = [retCtx EXCEPT ![r] = Ptr(callerCtx[r])]
            /\ execErr' = [execErr EXCEPT ![r] = DisallowedCommandError]
            /\ UNCHANGED <<repo, verifyCtx, authorityCalls>>
    /\ UNCHANGED <<SshArgs, callerCtx, gitalyCtx, ctxDone, response, verifyErr,
                   authMsg, ctxWithLogData, gitalyErr, gitalyCalls, gitalyReturns>>
    /\ UNCHANGED <<Config, clientVars>>

\* Mutant: Execute starts the backend call and returns without waiting for
\* it.
AfterVerifyAsync(r, v) ==
    /\ response' = [response EXCEPT ![r] = v.response]
    /\ verifyErr' = [verifyErr EXCEPT ![r] = v.err]
    /\ IF v.err = NoError
       THEN /\ ctxWithLogData' =
                  [ctxWithLogData EXCEPT
                     ![r] = Ptr(WithLogData(callerCtx[r],
                                            LogDataOf(Head(v.response))))]
            /\ gitalyCtx' = [gitalyCtx EXCEPT ![r] = Ptr(callerCtx[r])]
            /\ gitalyCalls' = [gitalyCalls EXCEPT ![r] = @ + 1]
            /\ pc' = [pc EXCEPT ![r] = "delegating"]
            /\ retCtx' = [retCtx EXCEPT
                            ![r] = Ptr(WithLogData(callerCtx[r],
                                                   LogDataOf(Head(v.response))))]
            /\ execErr' = [execErr EXCEPT ![r] = NoError]
       ELSE /\ retCtx' = [retCtx EXCEPT ![r] = Ptr(callerCtx[r])]
            /\ execErr' = [execErr EXCEPT ![r] = v.err]
            /\ pc' = [pc EXCEPT ![r] = "done"]
            /\ UNCHANGED <<ctxWithLogData, gitalyCtx, gitalyCalls>>
    /\ UNCHANGED <<SshArgs, repo, callerCtx, verifyCtx, ctxDone, gitalyErr,
                   authorityCalls, gitalyReturns>>
    /\ UNCHANGED <<Config, clientVars>>

\* Mutant: the verifier's response is kept in one place shared by all runs.
AfterVerifySharedResponse(r, v) ==
    /\ response' = [q \in Runs |-> v.response]
    /\ verifyErr' = [verifyErr EXCEPT ![r] = v.err]
    /\ IF v.err = NoError
       THEN /\ ctxWithLogData' =
                  [ctxWithLogData EXCEPT
                     ![r] = Ptr(WithLogData(callerCtx[r],
                                            LogDataOf(Head(v.response))))]
            /\ gitalyCtx' = [gitalyCtx EXCEPT ![r] = Ptr(callerCtx[r])]
            /\ gitalyCalls' = [gitalyCalls EXCEPT ![r] = @ + 1]
            /\ pc' = [pc EXCEPT ![r] = "delegating"]
            /\ UNCHANGED <<retCtx, execErr>>
       ELSE /\ retCtx' = [retCtx EXCEPT ![r] = Ptr(callerCtx[r])]
            /\ execErr' = [execErr EXCEPT ![r] = v.err]
            /\ pc' = [pc EXCEPT ![r] = "done"]
            /\ UNCHANGED <<ctxWithLogData, gitalyCtx, gitalyCalls>>
    /\ UNCHANGED <<SshArgs, repo, callerCtx, verifyCtx, ctxDone, gitalyErr,
                   authorityCalls, gitalyReturns>>
    /\ UNCHANGED <<Config, clientVars>>

\* Execute from the return of verifyAccess (response v.response, error
\* v.err) to its return or to the performGitalyCall call.
AfterVerify(r, v) ==
    /\ response' = [response EXCEPT ![r] = v.response]
    /\ verifyErr' = [verifyErr EXCEPT ![r] = v.err]
    /\ IF CallsGitaly(v.err)
       THEN /\ ctxWithLogData' =
                  [ctxWithLogData EXCEPT
                     ![r] = Ptr(WithLogData(callerCtx[r],
                                            LogDataOf(Head(v.response))))]
            /\ gitalyCtx' =
                  [gitalyCtx EXCEPT
                     ![r] = Ptr(GitalyCallCtx(callerCtx[r],
                                    WithLogData(callerCtx[r], LogDataOf(Head(v.response)))))]
            /\ gitalyCalls' = [gitalyCalls EXCEPT ![r] = @ + 1]
            /\ pc' = [pc EXCEPT ![r] = "delegating"]
            /\ UNCHANGED <<retCtx, execErr>>
       ELSE /\ retCtx' = [retCtx EXCEPT
                            ![r] = Ptr(VerifyErrorReturn(callerCtx[r], v.err).ctx)]
            /\ execErr' = [execErr EXCEPT
                             ![r] = VerifyErrorReturn(callerCtx[r], v.err).err]
            /\ pc' = [pc EXCEPT ![r] = "done"]
            /\ UNCHANGED <<ctxWithLogData, gitalyCtx, gitalyCalls>>
    /\ UNCHANGED <<SshArgs, repo, callerCtx, verifyCtx, ctxDone, gitalyErr,
                   authorityCalls, gitalyReturns>>
    /\ UNCHANGED <<Config, clientVars>>

\* The caller cancels the governing context while the access check is in
\* flight.  (A cancellation during the backend call is one of the errors
\* the backend call returns.)
Cancel(r) ==
    /\ pc[r] = "verifying"
    /\ ~ctxDone[r]
    /\ ctxDone' = [ctxDone EXCEPT ![r] = TRUE]
    /\ UNCHANGED <<pc, SshArgs, repo, callerCtx, verifyCtx, gitalyCtx, response,
                   verifyErr, authMsg, ctxWithLogData, retCtx, execErr, gitalyErr,
                   authorityCalls, gitalyCalls, gitalyReturns>>
    /\ UNCHANGED <<Config, clientVars>>

\* The authority answers the access check and verifyAccess returns.  A call
\* whose context is cancelled is aborted and gets no answer.
VerifyReturn(r) ==
    /\ pc[r] = "verifying"
    /\ ~ctxDone[r]
    /\ \E resp \in AccessResponses :
          /\ authMsg' = [authMsg EXCEPT ![r] = BodyMessage(resp)]
          /\ AfterVerify(r, Verify(resp))

\* The access check ends without a response: the authority is unreachable
\* or the context is cancelled.
VerifyAbort(r) ==
    /\ pc[r] = "verifying"
    /\ authMsg' = authMsg
    /\ AfterVerify(r, VerifyResult(NilPtr, AbortOutcome(ctxDone[r])))

\* Mutant: a failed backend call is made once more.
GitalyReturnRetries(r) ==
    /\ pc[r] = "delegating"
    /\ \E err \in GitalyOutcomes :
          /\ gitalyErr' = [gitalyErr EXCEPT ![r] = err]
          /\ IF err # NoError /\ gitalyCalls[r] < 2
             THEN /\ gitalyCalls' = [gitalyCalls EXCEPT ![r] = @ + 1]
                  /\ UNCHANGED <<pc, retCtx, execErr>>
             ELSE /\ retCtx' = [retCtx EXCEPT ![r] = ctxWithLogData[r]]
                  /\ execErr' = [execErr EXCEPT ![r] = err]
                  /\ pc' = [pc EXCEPT ![r] = "done"]
                  /\ UNCHANGED gitalyCalls
    /\ gitalyReturns' = [gitalyReturns EXCEPT ![r] = @ + 1]
    /\ UNCHANGED <<SshArgs, repo, callerCtx, verifyCtx, gitalyCtx, ctxDone, response,
                   verifyErr, authMsg, ctxWithLogData, authorityCalls>>
    /\ UNCHANGED <<Config, clientVars>>

\* performGitalyCall returns and Execute returns with it.
GitalyReturn(r) ==
    /\ pc[r] = "delegating"
    /\ \E err \in GitalyOutcomes :
          /\ gitalyErr' = [gitalyErr EXCEPT ![r] = err]
          /\ retCtx' = [retCtx EXCEPT
                          ![r] = Ptr(GitalyReturnValue(callerCtx[r],
                                         Head(ctxWithLogData[r]), err).ctx)]
          /\ execErr' = [execErr EXCEPT
                           ![r] = GitalyReturnValue(callerCtx[r],
                                         Head(ctxWithLogData[r]), err).err]
    /\ gitalyReturns' = [gitalyReturns EXCEPT ![r] = @ + 1]
    /\ pc' = [pc EXCEPT ![r] = "done"]
    /\ UNCHANGED <<SshArgs, repo, callerCtx, verifyCtx, gitalyCtx, ctxDone, response,
                   verifyErr, authMsg, ctxWithLogData, authorityCalls, gitalyCalls>>
    /\ UNCHANGED <<Config, clientVars>>

-----------------------------------------------------------------------------
\* Specifications.

\* config.Config{GitlabUrl: url}
NewConfig == [GitlabUrl |-> "http://authority.test"]

Init == Config = NewConfig /\ PipeInit /\ ClientInit

Next ==
    \/ \E r \in Runs : NewCommand(r)
    \/ \E r \in Runs : Validate(r)
    \/ \E r \in Runs : Cancel(r)
    \/ \E r \in Runs : VerifyReturn(r)
    \/ \E r \in Runs : VerifyAbort(r)
    \/ \E r \in Runs : GitalyReturn(r)

\* The command pipeline.
Spec == Init /\ [][Next]_vars


\* The personal-access-token client.
ClientSpec == Init /\ [][ClientNext]_vars

-----------------------------------------------------------------------------
\* Properties of the command pipeline (checked under Spec).

\* The run's access check was answered with an approval.
Approved(r) == verifyErr[r] = NoError /\ response[r] # NilPtr

\* The audit record carried by the context Execute returned.
ReturnedLogData(r) == Head(retCtx[r]).logData

\* C1: a run whose access check is denied never calls the backend, and
\* Execute returns the authority's denial message as it was sent.
C1_DeniedRunMakesNoBackendCall ==
    \A r \in Runs :
        verifyErr[r].kind = "Disallowed" =>
            /\ gitalyCalls[r] = 0
            /\ pc[r] = "done"
            /\ execErr[r].msg = authMsg[r]

C1_Witness ==
    \E r \in Runs :
        /\ pc[r] = "done"
        /\ verifyErr[r].kind = "Disallowed"
        /\ authMsg[r] = "Disallowed by API call"
        /\ execErr[r].msg = "Disallowed by API call"

\* C2: with an argument vector of any length but two, Execute returns the
\* disallowed-command error and calls neither the authority nor the backend.
C2_ValidationPrecedesNetworkCalls ==
    \A r \in Runs :
        (pc[r] # "new" /\ Len(SshArgs[r]) # 2) =>
            /\ authorityCalls[r] = 0
            /\ gitalyCalls[r] = 0
            /\ pc[r] \in {"ready", "done"}
            /\ pc[r] = "done" => execErr[r] = DisallowedCommandError

C2_Witness ==
    \E r1, r2 \in Runs :
        /\ pc[r1] = "done" /\ Len(SshArgs[r1]) < 2
        /\ pc[r2] = "done" /\ Len(SshArgs[r2]) > 2
        /\ execErr[r1] = DisallowedCommandError
        /\ execErr[r2] = DisallowedCommandError

\* C3: once the access check is approved, the context Execute returns
\* carries the audit record, whether the backend call succeeded or failed.
C3_AuditAttachedAfterApproval ==
    \A r \in Runs :
        (pc[r] = "done" /\ Approved(r)) =>
            /\ retCtx[r] # NilPtr
            /\ ReturnedLogData(r) # NilPtr

C3_Witness ==
    \E r1, r2 \in Runs :
        /\ pc[r1] = "done" /\ Approved(r1) /\ gitalyErr[r1] = NoError
        /\ ReturnedLogData(r1) # NilPtr
        /\ pc[r2] = "done" /\ Approved(r2) /\ gitalyErr[r2] # NoError
        /\ ReturnedLogData(r2) # NilPtr

\* The audit record of a finished approved run has the username, project
\* path and root namespace of the approval the verifier returned to that run.
AuditFieldsFromApproval(r) ==
    LET logData == Head(ReturnedLogData(r))
        approval == Head(response[r])
    IN  /\ ReturnedLogData(r) # NilPtr
        /\ logData.Username = approval.Username
        /\ logData.Meta.Project = approval.Gitaly.Repo.GlProjectPath
        /\ logData.Meta.RootNamespaceID = approval.RootNamespaceID

\* C4 as stated: every approved run with a two-element argument vector
\* succeeds and its audit record has the approval's fields.
C4_Original ==
    \A r \in Runs :
        (pc[r] = "done" /\ Len(SshArgs[r]) = 2 /\ Approved(r)) =>
            /\ execErr[r] = NoError
            /\ AuditFieldsFromApproval(r)

\* C4, amended: an approved run with a two-element argument vector succeeds
\* when the backend call returns no error, and in every such run, failed
\* backend call included, the audit record has the approval's fields.
C4_AuditFieldsEqualApproval ==
    \A r \in Runs :
        (pc[r] = "done" /\ Len(SshArgs[r]) = 2 /\ Approved(r)) =>
            /\ gitalyErr[r] = NoError => execErr[r] = NoError
            /\ AuditFieldsFromApproval(r)

C4_Witness ==
    \E r1, r2 \in Runs :
        /\ pc[r1] = "done" /\ Approved(r1) /\ execErr[r1] = NoError
        /\ pc[r2] = "done" /\ Approved(r2) /\ execErr[r2] = NoError
        /\ Head(ReturnedLogData(r1)).Username = "alex-doe"
        /\ Head(ReturnedLogData(r1)).Meta.Project = "group/project-path"
        /\ Head(ReturnedLogData(r2)).Username = "jane-doe"

\* C5: every error the verifier returns ends the run, and Execute returns
\* that very error, kind and message.
C5_VerifyErrorPropagatedUnchanged ==
    \A r \in Runs :
        verifyErr[r] # NoError =>
            /\ pc[r] = "done"
            /\ execErr[r] = verifyErr[r]
            /\ gitalyCalls[r] = 0

C5_Witness ==
    \E r1, r2 \in Runs :
        /\ pc[r1] = "done" /\ verifyErr[r1].kind = "Cancelled"
        /\ execErr[r1] = verifyErr[r1]
        /\ pc[r2] = "done" /\ verifyErr[r2].kind = "BareStatusFailure"
        /\ execErr[r2] = verifyErr[r2]

-----------------------------------------------------------------------------
\* Properties of the API client (checked under ClientSpec).

\* The response received decodes as JSON.
Decodable == httpResp.body # <<>> /\ Head(httpResp.body).valid

\* The fields the first document of the body spells out.
SentObject == Head(httpResp.body).obj

\* The response received is the test server's answer to the request.
FromFixture == httpResp = Handler(request)

\* The outcomes a returned (response, error) pair amounts to.
OutcomesOf(res) ==
    (IF res.resp # NilPtr THEN {"Success"} ELSE {})
      \cup (IF res.err # NoError THEN {res.err.kind} ELSE {})

\* C6: for every status and body, the call ends in exactly one of success,
\* authority-reported failure, parse failure and bare status failure.
C6_ClassificationTotalAndExclusive ==
    cpc = "done" =>
        /\ Cardinality(OutcomesOf(result)) = 1
        /\ OutcomesOf(result) \subseteq
             {"Success", "AuthorityMessage", "ParseFailure", "BareStatusFailure"}

C6_Witness ==
    /\ cpc = "done"
    /\ ~Is2xx(httpResp.status)
    /\ Decodable
    /\ SentObject = [success |-> TRUE, message |-> "Not allowed!"]
    /\ OutcomesOf(result) = {"AuthorityMessage"}

\* C7: a non-2xx response whose JSON body has a message yields an error
\* with exactly that message; the fixture's 403 for key id "2" yields
\* "Not allowed!".
C7_BodyMessageWinsOverStatus ==
    cpc = "done" =>
        /\ (~Is2xx(httpResp.status) /\ Decodable /\ "message" \in DOMAIN SentObject)
              => (result.err # NoError /\ result.err.msg = SentObject.message)
        /\ (FromFixture /\ request.KeyID = "2")
              => (result.err # NoError /\ result.err.msg = ExpectedError("2"))

C7_Witness ==
    /\ cpc = "done"
    /\ httpResp = HttpResponse(StatusForbidden, <<JsonDoc([message |-> "Not allowed!"])>>)
    /\ request.KeyID = "2"
    /\ result.err.msg = "Not allowed!"

\* C8: a 2xx response whose body is not valid JSON yields the error
\* "Parsing failed", whatever the body spells out; so does the fixture's
\* truncated document for key id "3".
C8_ParseFailureIsGeneric ==
    cpc = "done" =>
        /\ (Is2xx(httpResp.status) /\ ~Decodable)
              => result = ClientResult(NilPtr, NewError("ParseFailure", "Parsing failed"))
        /\ (FromFixture /\ request.KeyID = "3")
              => (result.err # NoError /\ result.err.msg = ExpectedError("3"))

C8_Witness ==
    /\ cpc = "done"
    /\ Is2xx(httpResp.status)
    /\ httpResp.body = <<BrokenDoc([message |-> "Not allowed!"])>>
    /\ result.err.msg = "Parsing failed"

\* C9: a non-2xx response without a parseable message yields the error
\* "Internal API error (<status>)", never a parsing failure; the fixture's
\* empty 403 for key id "4" yields "Internal API error (403)".
C9_BareStatusEncodesCode ==
    cpc = "done" =>
        /\ (~Is2xx(httpResp.status)
              /\ (~Decodable \/ "message" \notin DOMAIN SentObject))
              => /\ result.err.kind = "BareStatusFailure"
                 /\ result.err.msg =
                      "Internal API error (" \o ToString(httpResp.status) \o ")"
        /\ (FromFixture /\ request.KeyID = "4")
              => (result.err # NoError /\ result.err.msg = ExpectedError("4"))

C9_Witness ==
    /\ cpc = "done"
    /\ httpResp.status = 500
    /\ httpResp.body = <<BrokenDoc([message |-> "Not allowed!"])>>
    /\ result.err.msg = "Internal API error (500)"

\* C10: a 2xx response whose JSON body says success false is a failure: the
\* call returns no response and an error with the body's message, of the
\* same kind as any other authority message; the fixture's answer for key
\* id "1" yields "missing user".
C10_SuccessFalseIsAuthorityFailure ==
    cpc = "done" =>
        /\ (Is2xx(httpResp.status) /\ Decodable
              /\ "success" \in DOMAIN SentObject /\ ~SentObject.success)
              => /\ result.resp = NilPtr
                 /\ result.err.kind = "AuthorityMessage"
                 /\ result.err.msg = StringField(SentObject, "message")
        /\ (FromFixture /\ request.KeyID = "1")
              => (result.resp = NilPtr /\ result.err.msg = ExpectedError("1"))

C10_Witness ==
    /\ cpc = "done"
    /\ FromFixture
    /\ cargs.GitlabKeyId = "1"
    /\ result = ClientResult(NilPtr, NewError("AuthorityMessage", "missing user"))

-----------------------------------------------------------------------------
\* Further properties of the command pipeline (checked under Spec).

\* C11: the access-check call and the backend call of a run are both made
\* with the correlation id of the context the caller passed to Execute.
C11_TraceIdNeverRegenerated ==
    \A r \in Runs :
        /\ verifyCtx[r] # NilPtr =>
              Head(verifyCtx[r]).correlationID = callerCtx[r].correlationID
        /\ gitalyCtx[r] # NilPtr =>
              Head(gitalyCtx[r]).correlationID = callerCtx[r].correlationID
        /\ authorityCalls[r] > 0 => verifyCtx[r] # NilPtr
        /\ gitalyCalls[r] > 0 => gitalyCtx[r] # NilPtr

C11_Witness ==
    \E r \in Runs :
        /\ pc[r] = "done"
        /\ callerCtx[r].correlationID # ""
        /\ authorityCalls[r] = 1
        /\ gitalyCalls[r] = 1
        /\ Head(verifyCtx[r]).correlationID = callerCtx[r].correlationID
        /\ Head(gitalyCtx[r]).correlationID = callerCtx[r].correlationID

\* The returned context carries the whole audit record of the run's approval.
AuditComplete(r) ==
    /\ response[r] # NilPtr
    /\ ReturnedLogData(r) = Ptr(LogDataOf(Head(response[r])))

\* C12: a run whose context is cancelled while the access check is in
\* flight never calls the backend and ends with the cancellation error, not
\* a denial; the context it returns has no audit record or a complete one.
C12_CancellationPropagates ==
    \A r \in Runs :
        ctxDone[r] =>
            /\ gitalyCalls[r] = 0
            /\ pc[r] \in {"verifying", "done"}
            /\ pc[r] = "done" =>
                  /\ execErr[r] = CancelledError
                  /\ execErr[r].kind # "Disallowed"
                  /\ ReturnedLogData(r) = NilPtr \/ AuditComplete(r)

C12_Witness ==
    \E r \in Runs :
        /\ ctxDone[r]
        /\ pc[r] = "done"
        /\ execErr[r].kind = "Cancelled"
        /\ ReturnedLogData(r) = NilPtr
        /\ gitalyCalls[r] = 0

\* C13: a run makes the access-check call at most once and the backend call
\* at most once, and any error of either call ends the run.
C13_NoAutomaticRetry ==
    \A r \in Runs :
        /\ authorityCalls[r] <= 1
        /\ gitalyCalls[r] <= 1
        /\ verifyErr[r] # NoError => pc[r] = "done"
        /\ gitalyErr[r] # NoError => pc[r] = "done"

C13_Witness ==
    \E r1, r2 \in Runs :
        /\ pc[r1] = "done" /\ verifyErr[r1].kind = "TransportFailure"
        /\ authorityCalls[r1] = 1 /\ gitalyCalls[r1] = 0
        /\ pc[r2] = "done" /\ gitalyErr[r2] # NoError
        /\ authorityCalls[r2] = 1 /\ gitalyCalls[r2] = 1

\* Execute has returned in run r.
Returned(r) == retCtx[r] # NilPtr

\* C15: in an approved run Execute has not returned while the backend call
\* is in flight; when it has returned, the backend call has completed.
C15_ReturnsAfterDelegation ==
    \A r \in Runs :
        /\ pc[r] = "delegating" => ~Returned(r)
        /\ (Returned(r) /\ Approved(r)) =>
              (gitalyCalls[r] = 1 /\ gitalyReturns[r] = gitalyCalls[r])

C15_Witness ==
    \E r1, r2 \in Runs :
        /\ pc[r1] = "delegating" /\ gitalyCalls[r1] = 1 /\ gitalyReturns[r1] = 0
        /\ ~Returned(r1)
        /\ Returned(r2) /\ Approved(r2) /\ gitalyReturns[r2] = 1

\* C18: in an approved run the error Execute returns is the error the
\* backend call returned, so it is nil exactly when the backend's is.
C18_BackendOutcomeForwarded ==
    \A r \in Runs :
        (pc[r] = "done" /\ Approved(r)) =>
            /\ execErr[r] = gitalyErr[r]
            /\ (execErr[r] = NoError) <=> (gitalyErr[r] = NoError)

C18_Witness ==
    \E r1, r2 \in Runs :
        /\ pc[r1] = "done" /\ Approved(r1)
        /\ gitalyErr[r1] # NoError /\ execErr[r1] = gitalyErr[r1]
        /\ pc[r2] = "done" /\ Approved(r2)
        /\ gitalyErr[r2] = NoError /\ execErr[r2] = NoError

\* Everything run r holds.
RunState(r) ==
    <<pc[r], SshArgs[r], repo[r], callerCtx[r], verifyCtx[r], gitalyCtx[r],
      ctxDone[r], response[r], verifyErr[r], authMsg[r], ctxWithLogData[r],
      retCtx[r], execErr[r], gitalyErr[r], authorityCalls[r], gitalyCalls[r],
      gitalyReturns[r]>>

\* What a finished run returns and whether it called the backend, from its
\* own arguments, context, verifier answer and backend answer alone.
ResultAlone(r) ==
    IF Len(SshArgs[r]) # 2
    THEN <<DisallowedCommandError, Ptr(callerCtx[r]), 0>>
    ELSE IF verifyErr[r] # NoError
         THEN <<verifyErr[r], Ptr(callerCtx[r]), 0>>
         ELSE <<gitalyErr[r],
                Ptr(WithLogData(callerCtx[r], LogDataOf(Head(response[r])))),
                1>>

\* A step of one run leaves every other run and the configuration as they
\* were.
StepTouchesOneRun ==
    /\ Config' = Config
    /\ \A r, q \in Runs :
          (r # q /\ RunState(r)' # RunState(r)) => RunState(q)' = RunState(q)

\* C14: concurrent runs are independent: whatever the interleaving, a step
\* of one run changes nothing of another run nor the shared configuration,
\* and a finished run's error, context and backend call are those its own
\* inputs give.
C14_RunsAreIndependent ==
    /\ [][StepTouchesOneRun]_vars
    /\ [](\A r \in Runs :
            pc[r] = "done" =>
                <<execErr[r], retCtx[r], gitalyCalls[r]>> = ResultAlone(r))

C14_Witness ==
    \E r1, r2 \in Runs :
        /\ r1 # r2
        /\ pc[r1] = "done" /\ verifyErr[r1].kind = "Disallowed"
        /\ ReturnedLogData(r1) = NilPtr
        /\ pc[r2] = "done" /\ Approved(r2)
        /\ Head(ReturnedLogData(r2)).Username = "alex-doe"
        /\ response[r1] # response[r2]

\* C19: within a run the access check is requested only after the arity
\* check has passed, and the backend is called only after the verifier has
\* approved in that run; after a failed arity check or any verifier error
\* neither later step happens.
C19_ValidateVerifyDelegateOrder ==
    \A r \in Runs :
        /\ authorityCalls[r] > 0 =>
              (Len(SshArgs[r]) = 2 /\ pc[r] \in {"verifying", "delegating", "done"})
        /\ gitalyCalls[r] > 0 =>
              (Approved(r) /\ authorityCalls[r] = 1 /\ pc[r] \in {"delegating", "done"})
        /\ verifyErr[r] # NoError => (gitalyCalls[r] = 0 /\ pc[r] = "done")
        /\ pc[r] = "verifying" => (verifyErr[r] = NoError /\ response[r] = NilPtr)

C19_Witness ==
    \E r1, r2 \in Runs :
        /\ pc[r1] = "done" /\ Len(SshArgs[r1]) = 2 /\ Approved(r1)
        /\ authorityCalls[r1] = 1 /\ gitalyCalls[r1] = 1
        /\ pc[r2] = "done" /\ verifyErr[r2].kind = "ParseFailure"
        /\ authorityCalls[r2] = 1 /\ gitalyCalls[r2] = 0

\* The audit record of each run, once built, is the one the run returns.
AuditStateOk ==
    \A r \in Runs :
        /\ ctxWithLogData[r] # NilPtr => Approved(r)
        /\ (pc[r] = "done" /\ ~Approved(r)) =>
              (retCtx[r] = Ptr(callerCtx[r]) /\ ReturnedLogData(r) = NilPtr)
        /\ (pc[r] = "done" /\ Approved(r)) =>
              /\ retCtx[r] = ctxWithLogData[r]
              /\ ReturnedLogData(r) = Ptr(LogDataOf(Head(response[r])))

\* A context with an audit record, once built, is not built again or changed.
AuditWrittenOnce ==
    \A r \in Runs :
        ctxWithLogData[r] # NilPtr => ctxWithLogData'[r] = ctxWithLogData[r]

\* C20: a run that ends at the arity check or with a verifier error returns
\* the caller's context as it was, without audit record; an approved run
\* returns the one audit record built from its approval before the backend
\* call, whatever the backend call returns.
C20_AuditOnlyOnApprovalOnce ==
    /\ []AuditStateOk
    /\ [][AuditWrittenOnce]_vars

C20_Witness ==
    \E r1, r2 \in Runs :
        /\ pc[r1] = "done" /\ Approved(r1) /\ gitalyErr[r1] # NoError
        /\ retCtx[r1] = ctxWithLogData[r1]
        /\ pc[r2] = "done" /\ verifyErr[r2] # NoError
        /\ retCtx[r2] = Ptr(callerCtx[r2])
        /\ ReturnedLogData(r2) = NilPtr

-----------------------------------------------------------------------------
\* Further properties of the personal-access-token client (checked under
\* ClientSpec).

\* How many of the principal's identifiers the request carries.
Populated(req) ==
    (IF req.KeyID # "" THEN 1 ELSE 0) + (IF req.UserID # 0 THEN 1 ELSE 0)

\* C16: every request sent carries exactly one identifier of the principal:
\* the key id for a key-id principal, the user id discovery resolved for a
\* username principal; the fixture answers the username request with the
\* token the test expects.
C16_ExactlyOnePrincipalField ==
    cpc # "idle" =>
        /\ Populated(request) = 1
        /\ cargs.GitlabKeyId # "" =>
              (request.KeyID = cargs.GitlabKeyId /\ request.UserID = 0)
        /\ cargs.GitlabUsername # "" =>
              (request.KeyID = "" /\ request.UserID # 0)
        /\ (cpc = "done" /\ FromFixture /\ cargs.GitlabUsername # "") =>
              result = ClientResult(Ptr(ExpectedByUsername), NoError)

C16_Witness ==
    /\ cpc = "done"
    /\ FromFixture
    /\ cargs.GitlabUsername = "jane-doe"
    /\ request = [KeyID |-> "", UserID |-> 1]
    /\ result.resp = Ptr(ExpectedByUsername)

\* C17: a call that returns an error returns a nil response, and a call that
\* returns a response returns no error; the fixture's error cases return nil
\* and its key id "0" returns the token without error.
C17_ErrorMeansNilResponse ==
    cpc = "done" =>
        /\ result.err # NoError => result.resp = NilPtr
        /\ result.resp # NilPtr => result.err = NoError
        /\ (FromFixture /\ request.KeyID \in {"2", "3", "4"}) =>
              (result.resp = NilPtr /\ result.err.msg = ExpectedError(request.KeyID))
        /\ (FromFixture /\ request.KeyID = "0") =>
              result = ClientResult(Ptr(ExpectedByKeyId), NoError)

C17_Witness ==
    /\ cpc = "done"
    /\ FromFixture
    /\ request.KeyID = "3"
    /\ result = ClientResult(NilPtr, NewError("ParseFailure", "Parsing failed"))

====
